---- MODULE Spec2Model ----
(***************************************************************************)
(* Model of src/cloud-function.py: a Cloud Function that answers Slack     *)
(* slash commands.  request_handler checks the Content-Type, verifies the  *)
(* Slack signature, parses and validates the form, sanitizes the           *)
(* parameter, and routes the command to one of two BigQuery lookups.       *)
(*                                                                         *)
(* Python strings are sequences.  A character is a one-character TLA+      *)
(* string; the literal part of an f-string (or a string nothing looks      *)
(* inside) is one element holding the whole literal.  Python's None is     *)
(* the value None below, False-y like the empty string.                    *)
(***************************************************************************)
EXTENDS Naturals, Sequences, FiniteSets, TLC

VARIABLES
    env,        \* os.environ["SLACK_SIGNING_SECRET"] (None when unset)
    pc,         \* "idle" | "received" | "responded"
    request,    \* the HTTP request being handled
    response,   \* the value request_handler returned
    calls,      \* the functions request_handler ran, in order
    backend     \* what the BigQuery query did, when one was issued

vars == <<env, pc, request, response, calls, backend>>

\* Longest raw `text` form field the model sends.
MaxLen == 3

\* LIMIT 2 of the resource query, LIMIT 1 of the status query.
MaxRows == 2
MaxStatusRows == 1

None == <<"<None>">>
Lit(s) == <<s>>

\* Python truthiness of a str-or-None value: `not x`.
Falsy(x) == x = None \/ x = <<>>

-----------------------------------------------------------------------------
(* Characters and the str methods the code uses *)

UpperCase == <<"A","B","C","D","E","F","G","H","I","J","K","L","M",
               "N","O","P","Q","R","S","T","U","V","W","X","Y","Z">>
LowerCase == <<"a","b","c","d","e","f","g","h","i","j","k","l","m",
               "n","o","p","q","r","s","t","u","v","w","x","y","z">>
Digits == <<"0","1","2","3","4","5","6","7","8","9">>

Range(s) == {s[i] : i \in 1..Len(s)}

IsSpace(c) == c \in {" ", "\t", "\n"}

\* The lower-case form of each upper-case letter.
LowerOf ==
    [c \in Range(UpperCase) |-> LowerCase[CHOOSE i \in 1..Len(UpperCase) : UpperCase[i] = c]]

\* str.lower() on one character.
LowerChar(c) == IF c \in DOMAIN LowerOf THEN LowerOf[c] ELSE c

\* str.lower()
lower(s) == [i \in 1..Len(s) |-> LowerChar(s[i])]

RECURSIVE lstrip(_)
lstrip(s) == IF s # <<>> /\ IsSpace(Head(s)) THEN lstrip(Tail(s)) ELSE s

RECURSIVE rstrip(_)
rstrip(s) ==
    IF s # <<>> /\ IsSpace(s[Len(s)]) THEN rstrip(SubSeq(s, 1, Len(s) - 1)) ELSE s

\* str.strip()
strip(s) == rstrip(lstrip(s))

\* The first whitespace-delimited token of s (s starts with a non-space).
RECURSIVE TakeToken(_)
TakeToken(s) ==
    IF s = <<>> \/ IsSpace(Head(s)) THEN <<>> ELSE <<Head(s)>> \o TakeToken(Tail(s))

\* str.split(): the maximal runs of non-whitespace characters.
RECURSIVE split(_)
split(s) ==
    LET r == lstrip(s) IN
    IF r = <<>> THEN <<>>
    ELSE LET tok == TakeToken(r)
         IN <<tok>> \o split(SubSeq(r, Len(tok) + 1, Len(r)))

\* `sub in s` for two strings.
Contains(sub, s) ==
    \E i \in 0..(Len(s) - Len(sub)) : SubSeq(s, i + 1, i + Len(sub)) = sub

StartsWith(s, prefix) ==
    Len(s) >= Len(prefix) /\ SubSeq(s, 1, Len(prefix)) = prefix

\* The character class [a-zA-Z0-9\-_] of the sanitizing regex.
AllowedChars ==
    Range(LowerCase) \cup Range(UpperCase) \cup Range(Digits) \cup {"-", "_"}
Allowed(c) == c \in AllowedChars

\* re.sub(r'[^a-zA-Z0-9\-_]', '', s)
re_sub(s) == SelectSeq(s, Allowed)

sanitize_no_lower(s) == re_sub(s)
\* re.sub(r'[^a-zA-Z0-9\-_]', '', parameter).lower()
sanitize(s) == lower(re_sub(s))

-----------------------------------------------------------------------------
(* Results of a Python call: a returned value or a raised exception, with  *)
(* the calls made on the way.                                              *)

Ret(v, c) == [tag |-> "return", value |-> v, cls |-> "", msg |-> <<>>, calls |-> c]
Raise(cls, msg, c) == [tag |-> "raise", value |-> <<>>, cls |-> cls, msg |-> msg, calls |-> c]

\* isinstance(e, ValueError): ValueError and its subclasses.
IsValueError(cls) == cls \in {"ValueError", "JSONDecodeError"}

Call(fn, arg) == [fn |-> fn, arg |-> arg]

\* A Slack payload with a text, and one with blocks.
TextPayload(text) == [response_type |-> "ephemeral", text |-> text]
BlocksPayload(blocks) == [response_type |-> "ephemeral", blocks |-> blocks]

-----------------------------------------------------------------------------
(* The request *)

FORM_URLENCODED == Lit("application/x-www-form-urlencoded")

\* X-Slack-Request-Timestamp: the current time, or one an hour old.
FreshTs == Lit("<now>")
StaleTs == Lit("<now - 3600>")

\* X-Slack-Signature: "v0=" + the HMAC of "v0:<timestamp>:<body>" under the
\* configured signing secret, or some other value.
GoodSig == Lit("v0=<hmac of this request>")
BadSig == Lit("v0=<another digest>")

SigningSecret == Lit("<signing secret>")

GETINFO == <<"/","g","e","t","i","n","f","o">>
CHECKSTATUS == <<"/","c","h","e","c","k","s","t","a","t","u","s">>

\* request.headers.get(name, default) and request.form.get(name, default)
Get(field, default) == IF field = None THEN default ELSE field

-----------------------------------------------------------------------------
(* verify_slack_signature *)

MsgNoSecret ==
    Lit("Server configuration does not include Slack signing secret. Verification skipped (INSECURE).")
MsgInvalidSignature == Lit("Invalid Slack signature.")
MsgIntLiteral == Lit("invalid literal for int() with base 10: ''")

\* SignatureVerifier(secret).is_valid(body, timestamp, signature) of slack_sdk:
\* the timestamp is within five minutes of now and the signature is the HMAC
\* of the request.  The library reads the timestamp with int(); int_raises
\* says whether a timestamp that is no number makes it raise ValueError or
\* answer False.
is_valid(timestamp, signature, int_raises) ==
    IF timestamp \notin {FreshTs, StaleTs} /\ int_raises
    THEN Raise("ValueError", MsgIntLiteral, <<>>)
    ELSE Ret(timestamp = FreshTs /\ signature = GoodSig, <<>>)

verify_skips_missing_secret(req, secret, int_raises) ==
    LET c == <<Call("verify_slack_signature", <<>>)>> IN
    IF Falsy(secret) THEN Ret(TRUE, c)
    ELSE LET v == is_valid(Get(req.timestamp, <<>>), Get(req.signature, <<>>), int_raises)
         IN  IF v.tag = "raise" THEN Raise(v.cls, v.msg, c)
             ELSE IF ~v.value THEN Raise("ValueError", MsgInvalidSignature, c)
             ELSE Ret(TRUE, c)

verify_slack_signature(req, secret, int_raises) ==
    LET c == <<Call("verify_slack_signature", <<>>)>> IN
    IF Falsy(secret) THEN Raise("ValueError", MsgNoSecret, c)
    ELSE LET timestamp == Get(req.timestamp, <<>>)
             signature == Get(req.signature, <<>>)
             v == is_valid(timestamp, signature, int_raises)
         IN  IF v.tag = "raise" THEN Raise(v.cls, v.msg, c)
             ELSE IF ~v.value THEN Raise("ValueError", MsgInvalidSignature, c)
             ELSE Ret(TRUE, c)

-----------------------------------------------------------------------------
(* The BigQuery tables and what a query does *)

\* A creation_timestamp / last_checked that is a datetime object.
Datetime == Lit("<datetime 2024-01-02 03:04>")
\* datetime.strftime("%d-%m-%Y at %H:%M UTC")
strftime(t) == Lit("02-01-2024 at 03:04 UTC")
\* hasattr(t, 'strftime')
HasStrftime(t) == t = Datetime

\* The instance_console_url column: CONCAT(...) is NULL when an argument is.
ConsoleUrl(zone, instance_name, project_id) ==
    IF None \in {zone, instance_name, project_id} THEN None
    ELSE Lit("https://console.cloud.google.com/compute/instancesDetail/zones/") \o zone
         \o Lit("/instances/") \o instance_name \o Lit("?project=") \o project_id

ResourceRow(id, name, project, status, zone, mtype, ts) ==
    [instance_id |-> id, instance_name |-> name, project_id |-> project,
     status |-> status, zone |-> zone, machine_type |-> mtype,
     creation_timestamp |-> ts,
     instance_console_url |-> ConsoleUrl(zone, name, project)]

ResourceRows ==
    { ResourceRow(Lit("1001"), Lit("vm-a"), Lit("proj"), Lit("RUNNING"), Lit("zone-1"), Lit("e2-small"), Datetime),
      ResourceRow(Lit("1002"), Lit("vm-b"), Lit("proj"), Lit("STOPPED"), Lit("zone-2"), Lit("e2-micro"), Lit("2024-01-02")),
      ResourceRow(Lit("1003"), Lit("vm-c"), Lit("proj"), Lit("RUNNING"), None, Lit("e2-small"), None),
      ResourceRow(Lit("1004"), None, Lit("proj"), None, Lit("zone-1"), None, Datetime),
      ResourceRow(Lit("1005"), Lit("vm-e"), None, Lit("RUNNING"), Lit("zone-1"), Lit("e2-small"), None),
      ResourceRow(None, None, None, None, None, None, None) }

S_Active == <<"A","c","t","i","v","e">>
S_OK == <<"O","K">>
S_Completed == <<"C","o","m","p","l","e","t","e","d">>
S_PendingReview == <<"P","e","n","d","i","n","g"," ","R","e","v","i","e","w">>
S_InProgress == <<"I","n"," ","P","r","o","g","r","e","s","s">>
S_Failed == <<"F","a","i","l","e","d">>
S_OkPending == <<"O","K",","," ","p","e","n","d","i","n","g">>
S_Empty == <<>>

Statuses ==
    {None, S_Empty, S_Active, S_OK, S_Completed, S_PendingReview, S_InProgress,
     S_Failed, S_OkPending}

StatusRow(item, status, details, checked) ==
    [item_name |-> item, current_status |-> status, details |-> details,
     last_checked |-> checked]

StatusRows ==
    { StatusRow(Lit("vm-a"), s, Lit("all checks ran"), Datetime) : s \in Statuses }
    \cup { StatusRow(None, s, None, None) : s \in Statuses }
    \cup { StatusRow(Lit("vm-b"), S_Failed, <<>>, Lit("2024-01-02")) }

\* Sequences over S of length 0..n.
SeqsUpTo(S, n) == UNION { [1..k -> S] : k \in 0..n }

BackendDetail == Lit("403 Access Denied: Table proj:ds.tbl")

Rows(rows) == [tag |-> "rows", rows |-> rows, cls |-> "", msg |-> <<>>]
Fails(cls, msg) == [tag |-> "raise", rows |-> <<>>, cls |-> cls, msg |-> msg]
NoQuery == [tag |-> "none", rows |-> <<>>, cls |-> "", msg |-> <<>>]

\* bigquery.Client() and client.query(...).result() raise what the library
\* raises: an API error, or a ValueError (a subclass of it included).
QueryFailures ==
    { Fails(cls, BackendDetail) : cls \in {"GoogleAPICallError", "ValueError", "JSONDecodeError"} }

ResourceOutcomes == { Rows(r) : r \in SeqsUpTo(ResourceRows, MaxRows) } \cup QueryFailures
StatusOutcomes == { Rows(r) : r \in SeqsUpTo(StatusRows, MaxStatusRows) } \cup QueryFailures

-----------------------------------------------------------------------------
(* get_resource_info *)

\* `x or 'N/A'`
OrNA(x) == IF Falsy(x) THEN Lit("N/A") ELSE x

\* The formatted_time of a row's timestamp column.
FormattedTime(t) ==
    IF ~Falsy(t) /\ HasStrftime(t) THEN strftime(t)
    ELSE IF ~Falsy(t) THEN t
    ELSE Lit("Not available")

MessageText(row) ==
    Lit("(i) Information for *") \o OrNA(row.instance_name)
    \o Lit("* (ID: *") \o OrNA(row.instance_id) \o Lit("*):\n")
    \o Lit("   - Project: *") \o OrNA(row.project_id) \o Lit("*\n")
    \o Lit("   - Status: *") \o OrNA(row.status) \o Lit("*\n")
    \o Lit("   - Zone: *") \o OrNA(row.zone) \o Lit("*\n")
    \o Lit("   - Machine Type: *") \o OrNA(row.machine_type) \o Lit("*\n")
    \o Lit("   - Created/Updated: _") \o FormattedTime(row.creation_timestamp) \o Lit("_")

Section(text) == [type |-> "section", text |-> [type |-> "mrkdwn", text |-> text]]
Button(url) ==
    [type |-> "button",
     text |-> [type |-> "plain_text", text |-> Lit("Open in GCP Console"), emoji |-> TRUE],
     url |-> url]
Actions(elements) == [type |-> "actions", elements |-> elements]
Divider == [type |-> "divider"]

\* The action_elements of one row.
ActionElements(row) ==
    IF ~Falsy(row.instance_console_url) THEN <<Button(row.instance_console_url)>> ELSE <<>>

\* What one iteration of `for row in rows` appends to blocks.
RowBlocks(row) ==
    <<Section(MessageText(row))>>
    \o (IF ActionElements(row) # <<>> THEN <<Actions(ActionElements(row))>> ELSE <<>>)
    \o <<Divider>>

\* blocks after the loop over rows.
RECURSIVE LoopBlocks(_)
LoopBlocks(rows) ==
    IF rows = <<>> THEN <<>> ELSE RowBlocks(Head(rows)) \o LoopBlocks(Tail(rows))

KeepLastDivider(blocks) == blocks
\* `if blocks and blocks[-1]["type"] == "divider": blocks.pop()`
PopLastDivider(blocks) ==
    IF blocks # <<>> /\ blocks[Len(blocks)].type = "divider"
    THEN SubSeq(blocks, 1, Len(blocks) - 1)
    ELSE blocks

NoInformationFound(resource_name) ==
    Lit("No information found for resource: *") \o resource_name \o Lit("*.")

\* store is what bigquery.Client() and client.query(...).result() do.
get_resource_info(resource_name, store) ==
    LET c == <<Call("get_resource_info", <<resource_name>>),
               Call("bigquery.query", <<resource_name>>)>>
    IN  IF store.tag = "raise" THEN Raise(store.cls, store.msg, c)
        ELSE LET rows == store.rows IN
             IF rows = <<>>
             THEN Ret(TextPayload(NoInformationFound(resource_name)), c)
             ELSE Ret(BlocksPayload(PopLastDivider(LoopBlocks(rows))), c)

-----------------------------------------------------------------------------
(* check_resource_status *)

k_active == <<"a","c","t","i","v","e">>
k_ok == <<"o","k">>
k_complete == <<"c","o","m","p","l","e","t","e">>
k_pending == <<"p","e","n","d","i","n","g">>
k_in_progress == <<"i","n"," ","p","r","o","g","r","e","s","s">>
k_unknown == <<"u","n","k","n","o","w","n">>

CHECK_MARK == Lit("(check mark)")
HOURGLASS == Lit("(hourglass)")
CROSS == Lit("(cross)")

\* status_value = str(row.current_status).lower(), or "unknown" for None
StatusValue(row) ==
    IF row.current_status # None THEN lower(row.current_status) ELSE k_unknown

TierPendingFirst(status_value) ==
    IF Contains(k_pending, status_value) \/ Contains(k_in_progress, status_value)
    THEN "pending"
    ELSE IF Contains(k_active, status_value) \/ Contains(k_ok, status_value)
            \/ Contains(k_complete, status_value)
    THEN "favorable"
    ELSE "unfavorable"

\* The branch of the if / elif / else over status_value.
Tier(status_value) ==
    IF Contains(k_active, status_value) \/ Contains(k_ok, status_value)
       \/ Contains(k_complete, status_value)
    THEN "favorable"
    ELSE IF Contains(k_pending, status_value) \/ Contains(k_in_progress, status_value)
    THEN "pending"
    ELSE "unfavorable"

Emoji(tier) ==
    IF tier = "favorable" THEN CHECK_MARK
    ELSE IF tier = "pending" THEN HOURGLASS
    ELSE CROSS

Message(tier, row, resource_name) ==
    LET who == IF Falsy(row.item_name) THEN resource_name ELSE row.item_name
        status == OrNA(row.current_status)
    IN  IF tier = "favorable"
        THEN Lit("Resource *") \o who \o Lit("* has a favorable status: *") \o status \o Lit("*.")
        ELSE IF tier = "pending"
        THEN Lit("Resource *") \o who \o Lit("* has status: *") \o status \o Lit("*.")
        ELSE Lit("Resource *") \o who \o Lit("* requires attention. Status: *") \o status \o Lit("*.")

FullResponseText(row, resource_name) ==
    LET tier == Tier(StatusValue(row))
        details_value == IF Falsy(row.details) THEN Lit("No additional details.") ELSE row.details
    IN  Emoji(tier) \o Lit(" ") \o Message(tier, row, resource_name) \o Lit("\n")
        \o Lit("   - Details: _") \o details_value \o Lit("_\n")
        \o Lit("   - Last checked: _") \o FormattedTime(row.last_checked) \o Lit("_")

StatusNotFound(resource_name) ==
    Lit("(question mark) Resource *") \o resource_name \o Lit("* was not found for status check.")

check_resource_status(resource_name, store) ==
    LET c == <<Call("check_resource_status", <<resource_name>>),
               Call("bigquery.query", <<resource_name>>)>>
    IN  IF store.tag = "raise" THEN Raise(store.cls, store.msg, c)
        ELSE LET rows == store.rows IN
             IF rows = <<>>
             THEN Ret(TextPayload(StatusNotFound(resource_name)), c)
             ELSE Ret(TextPayload(FullResponseText(rows[1], resource_name)), c)

-----------------------------------------------------------------------------
(* menu_controller *)

NotRecognized(command) == Lit("Command '") \o command \o Lit("' not recognized.")

\* Prepend the calls already made to a result.
After(c, r) == [r EXCEPT !.calls = c \o r.calls]

menu_controller_any_case(command, parameter, oracle) ==
    LET c == <<Call("menu_controller", <<command, parameter>>)>> IN
    IF lower(command) = GETINFO
    THEN After(c, get_resource_info(parameter, oracle.info))
    ELSE IF lower(command) = CHECKSTATUS
    THEN After(c, check_resource_status(parameter, oracle.status))
    ELSE Ret(TextPayload(NotRecognized(command)), c)

\* oracle.info and oracle.status are what a query of each table does.
menu_controller(command, parameter, oracle) ==
    LET c == <<Call("menu_controller", <<command, parameter>>)>> IN
    IF command = GETINFO
    THEN After(c, get_resource_info(parameter, oracle.info))
    ELSE IF command = CHECKSTATUS
    THEN After(c, check_resource_status(parameter, oracle.status))
    ELSE Ret(TextPayload(NotRecognized(command)), c)

-----------------------------------------------------------------------------
(* request_handler *)

NoCommand == Lit("Error: No command was provided.")
UsageError(command) ==
    Lit("Error: A single parameter was expected. Example: ") \o command \o Lit(" my-resource")
ValidationError(msg) == Lit("Validation Error: ") \o msg
Apology == Lit("Sorry, an error occurred while processing your request. Please try again later.")
NotFromSlack == Lit("This request does not appear to be from Slack (incorrect Content-Type).")

\* What a Flask view may return: a dict (sent as JSON, status 200) or a
\* (body, status) tuple.
Dict(payload) == [kind |-> "dict", status |-> 200, payload |-> payload]
Tuple(body, status) == [kind |-> "tuple", status |-> status, body |-> body]
\* An exception that leaves request_handler.
Escapes(cls, msg) == [kind |-> "exception", status |-> 500, cls |-> cls, msg |-> msg]

FromSlackOrCharset(req) ==
    req.content_type \in
        {FORM_URLENCODED, Lit("application/x-www-form-urlencoded; charset=utf-8")}
\* `request.headers.get('Content-Type') == 'application/x-www-form-urlencoded'`
FromSlack(req) == req.content_type = FORM_URLENCODED

BadParameterAfterSanitize(parameter) ==
    sanitize(parameter) = <<>> \/ Len(split(parameter)) > 1
BadParameterEmptyOnly(parameter) == parameter = <<>>
\* `not parameter or len(parameter.split()) > 1`
BadParameter(parameter) == parameter = <<>> \/ Len(split(parameter)) > 1

TryBlockCommandFirst(req, secret, oracle) ==
    IF FromSlack(req)
    THEN LET c0 == <<Call("request.form", <<>>)>>
             command == strip(Get(req.form.command, <<>>))
             parameter == strip(Get(req.form.text, <<>>))
         IN  IF command = <<>>
             THEN Ret(Dict(TextPayload(NoCommand)), c0)
             ELSE LET v == After(c0, verify_slack_signature(req, secret, oracle.int_raises)) IN
                  IF v.tag = "raise" THEN v
                  ELSE IF BadParameter(parameter)
                  THEN Ret(Dict(TextPayload(UsageError(command))), v.calls)
                  ELSE LET m == After(v.calls \o <<Call("sanitize", <<parameter>>)>>,
                                      menu_controller(command, sanitize(parameter), oracle))
                       IN  IF m.tag = "raise" THEN m ELSE Ret(Dict(m.value), m.calls)
    ELSE Ret(Tuple(NotFromSlack, 400), <<Call("request.get_data", <<>>)>>)

\* The body of the try block.
TryBlock(req, secret, oracle) ==
    IF FromSlack(req)
    THEN LET v == verify_slack_signature(req, secret, oracle.int_raises) IN
         IF v.tag = "raise" THEN v
         ELSE LET c == v.calls \o <<Call("request.form", <<>>)>>
                  command == strip(Get(req.form.command, <<>>))
                  parameter == strip(Get(req.form.text, <<>>))
              IN  IF command = <<>>
                  THEN Ret(Dict(TextPayload(NoCommand)), c)
                  ELSE IF BadParameter(parameter)
                  THEN Ret(Dict(TextPayload(UsageError(command))), c)
                  ELSE LET sanitized == sanitize(parameter)
                           m == After(c \o <<Call("sanitize", <<parameter>>)>>,
                                      menu_controller(command, sanitized, oracle))
                       IN  IF m.tag = "raise" THEN m ELSE Ret(Dict(m.value), m.calls)
    ELSE Ret(Tuple(NotFromSlack, 400), <<Call("request.get_data", <<>>)>>)

request_handler_no_catch_all(req, secret, oracle) ==
    LET r == TryBlock(req, secret, oracle) IN
    IF r.tag = "return" THEN r
    ELSE IF IsValueError(r.cls)
    THEN Ret(Dict(TextPayload(ValidationError(r.msg))), r.calls)
    ELSE Ret(Escapes(r.cls, r.msg), r.calls)

\* The try block under its two except clauses.
request_handler(req, secret, oracle) ==
    LET r == TryBlock(req, secret, oracle) IN
    IF r.tag = "return" THEN r
    ELSE IF IsValueError(r.cls)
    THEN Ret(Dict(TextPayload(ValidationError(r.msg))), r.calls)
    ELSE Ret(Dict(TextPayload(Apology)), r.calls)

-----------------------------------------------------------------------------
(* The requests the model sends, and the function instance's life *)

ContentTypes ==
    {None, FORM_URLENCODED, Lit("application/json"),
     Lit("application/x-www-form-urlencoded; charset=utf-8")}
Timestamps == {None, FreshTs, StaleTs}
Signatures == {None, GoodSig, BadSig}
Secrets == {None, <<>>, SigningSecret}

Commands ==
    {None, <<>>, <<" ">>, GETINFO, <<" ">> \o GETINFO \o <<" ">>, CHECKSTATUS,
     <<"/","G","e","t","I","n","f","o">>, <<"/","f","o","o">>}

\* A lower-case letter, an upper-case letter, a hyphen, a character outside
\* the whitelist, and whitespace.
ParamChars == {"a", "B", "-", "!", " "}
Texts == {None} \cup SeqsUpTo(ParamChars, MaxLen)

Requests ==
    [content_type : ContentTypes, timestamp : Timestamps, signature : Signatures,
     form : [command : Commands, text : Texts]]

NoRequest ==
    [content_type |-> None, timestamp |-> None, signature |-> None,
     form |-> [command |-> None, text |-> None]]
NoResponse == [kind |-> "none", status |-> 0]

\* A world in which no query is reached: used to find which table, if any,
\* the request makes the handler query.
Quiet == [int_raises |-> FALSE, info |-> Rows(<<>>), status |-> Rows(<<>>)]

Ran(c, fn) == \E i \in 1..Len(c) : c[i].fn = fn

\* What the libraries may do for this request: each part varies only when
\* the handler reads it.
Oracles(req, secret) ==
    LET probe == request_handler(req, secret, Quiet).calls IN
    { [int_raises |-> b, info |-> i, status |-> s] :
        b \in (IF Get(req.timestamp, <<>>) = <<>> THEN BOOLEAN ELSE {FALSE}),
        i \in (IF Ran(probe, "get_resource_info") THEN ResourceOutcomes ELSE {Rows(<<>>)}),
        s \in (IF Ran(probe, "check_resource_status") THEN StatusOutcomes ELSE {Rows(<<>>)}) }

\* The outcome of the query the handler issued, if it issued one.
Queried(c, oracle) ==
    IF Ran(c, "get_resource_info") THEN oracle.info
    ELSE IF Ran(c, "check_resource_status") THEN oracle.status
    ELSE NoQuery

Init ==
    /\ env \in Secrets
    /\ pc = "idle"
    /\ request = NoRequest
    /\ response = NoResponse
    /\ calls = <<>>
    /\ backend = NoQuery

\* An HTTP request arrives.
Receive ==
    /\ pc = "idle"
    /\ \E req \in Requests : request' = req
    /\ pc' = "received"
    /\ UNCHANGED <<env, response, calls, backend>>

\* request_handler runs to its return.
Handle ==
    /\ pc = "received"
    /\ \E oracle \in Oracles(request, env) :
         LET r == request_handler(request, env, oracle) IN
         /\ response' = r.value
         /\ calls' = r.calls
         /\ backend' = Queried(r.calls, oracle)
    /\ pc' = "responded"
    /\ UNCHANGED <<env, request>>

\* The framework sends the response; nothing of the request is kept.
Deliver ==
    /\ pc = "responded"
    /\ pc' = "idle"
    /\ request' = NoRequest
    /\ response' = NoResponse
    /\ calls' = <<>>
    /\ backend' = NoQuery
    /\ UNCHANGED env

Next == Receive \/ Handle \/ Deliver

Spec == Init /\ [][Next]_vars

-----------------------------------------------------------------------------
(* What the properties below say about a request and its response *)

Responded == pc = "responded"

\* The request carries the Content-Type Slack sends.
IsForm == request.content_type = Lit("application/x-www-form-urlencoded")

\* A secret is configured and the request is freshly and correctly signed.
SignatureOK ==
    /\ env = SigningSecret
    /\ request.timestamp = FreshTs
    /\ request.signature = GoodSig

RawCommand == Get(request.form.command, <<>>)
RawText == Get(request.form.text, <<>>)

\* The number of whitespace-delimited tokens of s: the positions where a
\* run of non-whitespace starts.
TokenCount(s) ==
    Cardinality({i \in 1..Len(s) : ~IsSpace(s[i]) /\ (i = 1 \/ IsSpace(s[i - 1]))})

\* The command without its surrounding whitespace.
CommandName == strip(RawCommand)

IsEphemeralText ==
    /\ response.kind = "dict"
    /\ DOMAIN response.payload = {"response_type", "text"}
    /\ response.payload.response_type = "ephemeral"

IsEphemeralBlocks ==
    /\ response.kind = "dict"
    /\ DOMAIN response.payload = {"response_type", "blocks"}
    /\ response.payload.response_type = "ephemeral"

RepliesText(text) == IsEphemeralText /\ response.payload.text = text

NoLookup ==
    /\ ~Ran(calls, "get_resource_info")
    /\ ~Ran(calls, "check_resource_status")
    /\ ~Ran(calls, "bigquery.query")
    /\ backend = NoQuery

\* C1: a form-encoded request whose signature verification fails (no secret
\* configured, timestamp or signature header missing, stale timestamp or
\* mismatch) is answered with an ephemeral text starting "Validation Error:",
\* and the form is not parsed, menu_controller is not called and no query is
\* issued; with no secret the request never proceeds as if verified.
C1_SignatureFailureIsRejected ==
    (Responded /\ IsForm /\ ~SignatureOK) =>
        /\ IsEphemeralText
        /\ StartsWith(response.payload.text, Lit("Validation Error: "))
        /\ ~Ran(calls, "request.form")
        /\ ~Ran(calls, "sanitize")
        /\ ~Ran(calls, "menu_controller")
        /\ NoLookup

\* A well-signed /getinfo request arriving when no secret is configured.
C1_Witness ==
    /\ Responded /\ IsForm
    /\ env = None
    /\ request.timestamp = FreshTs /\ request.signature = GoodSig
    /\ request.form.command = GETINFO /\ request.form.text = <<"a">>
    /\ RepliesText(Lit("Validation Error: ") \o MsgNoSecret)

\* C2: every response of request_handler is an ephemeral chat payload with
\* exactly one of the keys text and blocks, and no exception leaves the
\* handler; only the wrong-Content-Type path answers with a plain-text body
\* and status 400.
C2_EveryResponseIsWellFormed ==
    Responded =>
        /\ response.kind # "exception"
        /\ IsForm => (IsEphemeralText \/ IsEphemeralBlocks)
        /\ ~IsForm => (response.kind = "tuple" /\ response.status = 400)

\* A lookup that fails with an API error is answered with a chat payload.
C2_Witness ==
    /\ Responded
    /\ backend.tag = "raise" /\ backend.cls = "GoogleAPICallError"
    /\ IsEphemeralText

\* C3: with a valid signature and a non-empty command, a text field that is
\* empty after stripping or holds more than one token is answered with the
\* usage-example error naming the command, and no lookup client runs.
C3_BadParameterGetsUsageError ==
    (Responded /\ IsForm /\ SignatureOK /\ CommandName # <<>> /\ TokenCount(RawText) # 1) =>
        /\ RepliesText(Lit("Error: A single parameter was expected. Example: ")
                       \o CommandName \o Lit(" my-resource"))
        /\ Contains(CommandName, response.payload.text)
        /\ ~Ran(calls, "menu_controller")
        /\ NoLookup

\* /getinfo with the two tokens "a B".
C3_Witness ==
    /\ Responded /\ IsForm /\ SignatureOK
    /\ request.form.command = GETINFO
    /\ request.form.text = <<"a", " ", "B">>
    /\ IsEphemeralText
    /\ Contains(GETINFO, response.payload.text)


\* C4: when the lookup's query raises, whatever the exception's class, the
\* handler issues no second query and replies once with the generic apology,
\* and the reply holds no part of the backend's error message.
C4_LookupFailureGetsApology ==
    (Responded /\ backend.tag = "raise") =>
        /\ Cardinality({i \in 1..Len(calls) : calls[i].fn = "bigquery.query"}) = 1
        /\ RepliesText(Lit("Sorry, an error occurred while processing your request. Please try again later."))
        /\ Range(backend.msg) \cap Range(response.payload.text) = {}

\* C5 as stated: with a valid signature and one parameter token, every
\* command field other than exactly "/getinfo" or "/checkstatus" is answered
\* "Command '<command>' not recognized.", with no lookup and no error.
C5_AnyOtherCommandNotRecognized ==
    (Responded /\ IsForm /\ SignatureOK /\ TokenCount(RawText) = 1
     /\ RawCommand \notin {GETINFO, CHECKSTATUS}) =>
        /\ RepliesText(Lit("Command '") \o RawCommand \o Lit("' not recognized."))
        /\ NoLookup

\* C5, amended: the same for a command field that, stripped of surrounding
\* whitespace, is non-empty and is not exactly "/getinfo" or "/checkstatus";
\* the reply names the stripped command.
C5_UnknownCommandNotRecognized ==
    (Responded /\ IsForm /\ SignatureOK /\ TokenCount(RawText) = 1
     /\ CommandName # <<>> /\ CommandName \notin {GETINFO, CHECKSTATUS}) =>
        /\ RepliesText(Lit("Command '") \o CommandName \o Lit("' not recognized."))
        /\ response.status = 200
        /\ Ran(calls, "menu_controller")
        /\ NoLookup

\* "/GetInfo a": the match is case-sensitive.
C5_Witness ==
    /\ Responded /\ IsForm /\ SignatureOK
    /\ request.form.command = <<"/","G","e","t","I","n","f","o">>
    /\ request.form.text = <<"a">>
    /\ RepliesText(NotRecognized(request.form.command))

\* The calls of the handler on the wrong-Content-Type path.
OnlyReadsBody == \A i \in 1..Len(calls) : calls[i].fn = "request.get_data"

\* C6: a request whose Content-Type is absent or is not exactly
\* "application/x-www-form-urlencoded" gets status 400 with a plain-text body,
\* whatever its signature headers and form; no signature verification, form
\* parsing, routing or lookup happens.
C6_WrongContentTypeGets400 ==
    (Responded /\ ~IsForm) =>
        /\ response.kind = "tuple"
        /\ response.status = 400
        /\ response.body = Lit("This request does not appear to be from Slack (incorrect Content-Type).")
        /\ OnlyReadsBody
        /\ NoLookup

\* A well-signed /getinfo request whose Content-Type carries a charset.
C6_Witness ==
    /\ Responded /\ SignatureOK
    /\ request.content_type = Lit("application/x-www-form-urlencoded; charset=utf-8")
    /\ request.form.command = GETINFO /\ request.form.text = <<"a">>
    /\ response.kind = "tuple" /\ response.status = 400


\* The characters a sanitized parameter may hold: [a-z0-9_-].
SanitizedChars == Range(LowerCase) \cup Range(Digits) \cup {"_", "-"}

\* The whitelisted characters of s, in their order, each lower-cased.
RECURSIVE WhitelistedLowered(_)
WhitelistedLowered(s) ==
    IF s = <<>> THEN <<>>
    ELSE LET c == Head(s)
             keep == \/ \E i \in 1..Len(LowerCase) : c \in {LowerCase[i], UpperCase[i]}
                     \/ c \in Range(Digits) \cup {"_", "-"}
             low == IF \E i \in 1..Len(UpperCase) : UpperCase[i] = c
                    THEN LowerCase[CHOOSE i \in 1..Len(UpperCase) : UpperCase[i] = c]
                    ELSE c
         IN  (IF keep THEN <<low>> ELSE <<>>) \o WhitelistedLowered(Tail(s))

\* The arguments of the handler's call of fn (the handler makes at most one).
ArgsOf(fn) == calls[CHOOSE i \in 1..Len(calls) : calls[i].fn = fn].arg

\* C7: the sanitized form of any raw parameter holds only characters of
\* [a-z0-9_-], is the raw parameter's whitelisted characters in their order,
\* lower-cased, and sanitizing it again changes nothing; the parameter
\* menu_controller receives is that sanitized form of the stripped text.
C7_SanitizedParameter ==
    /\ (pc = "received") =>
          /\ Range(sanitize(RawText)) \subseteq SanitizedChars
          /\ sanitize(RawText) = WhitelistedLowered(RawText)
          /\ sanitize(sanitize(RawText)) = sanitize(RawText)
    /\ (Responded /\ Ran(calls, "menu_controller")) =>
          /\ ArgsOf("menu_controller")[2] = WhitelistedLowered(strip(RawText))
          /\ Range(ArgsOf("menu_controller")[2]) \subseteq SanitizedChars

\* The text "B!-" reaches menu_controller as "b-".
C7_Witness ==
    /\ Responded
    /\ request.form.text = <<"B", "!", "-">>
    /\ Ran(calls, "menu_controller")
    /\ ArgsOf("menu_controller")[2] = <<"b", "-">>

\* The block types the rows call for: per row a section, an actions block
\* when the row has a console URL, and a divider when another row follows.
RECURSIVE ExpectedTypes(_)
ExpectedTypes(rows) ==
    IF rows = <<>> THEN <<>>
    ELSE <<"section">>
         \o (IF Head(rows).instance_console_url \notin {None, <<>>} THEN <<"actions">> ELSE <<>>)
         \o (IF Tail(rows) # <<>> THEN <<"divider">> ELSE <<>>)
         \o ExpectedTypes(Tail(rows))

CountType(blocks, t) == Cardinality({i \in 1..Len(blocks) : blocks[i].type = t})

\* Every actions block holds one button.
SingleButtons(blocks) ==
    \A i \in 1..Len(blocks) :
        blocks[i].type = "actions" =>
            /\ Len(blocks[i].elements) = 1
            /\ blocks[i].elements[1].type = "button"
            /\ blocks[i].elements[1].url \notin {None, <<>>}

\* C8: get_resource_info answers zero rows with the "No information found"
\* text naming the queried resource; for n >= 1 rows it answers a block list
\* that is, per row in order, a section, then an actions block with a single
\* button iff the row's console URL is non-empty, with a divider between
\* consecutive rows only: n sections, n-1 dividers, never empty, never ending
\* in a divider.
C8_ResourceBlocks ==
    (Responded /\ Ran(calls, "get_resource_info") /\ backend.tag = "rows") =>
        IF backend.rows = <<>>
        THEN /\ RepliesText(Lit("No information found for resource: *")
                            \o ArgsOf("get_resource_info")[1] \o Lit("*."))
        ELSE /\ IsEphemeralBlocks
             /\ LET blocks == response.payload.blocks
                    n == Len(backend.rows)
                IN  /\ [i \in 1..Len(blocks) |-> blocks[i].type] = ExpectedTypes(backend.rows)
                    /\ SingleButtons(blocks)
                    /\ CountType(blocks, "section") = n
                    /\ CountType(blocks, "divider") = n - 1
                    /\ blocks # <<>>
                    /\ blocks[Len(blocks)].type # "divider"

\* Two rows, the first without a console URL, the second with one.
C8_Witness ==
    /\ Responded /\ Ran(calls, "get_resource_info") /\ backend.tag = "rows"
    /\ Len(backend.rows) = 2
    /\ backend.rows[1].instance_console_url = None
    /\ backend.rows[2].instance_console_url # None
    /\ IsEphemeralBlocks
    /\ Len(response.payload.blocks) = 4

\* The tier the claim gives a current_status: favorable if, lower-cased, it
\* contains "active", "ok" or "complete"; else pending if it contains
\* "pending" or "in progress"; else unfavorable, as for an absent status.
ClaimedGlyph(current_status) ==
    LET v == IF current_status = None THEN <<>> ELSE lower(current_status)
        has(k) == \E i \in 1..Len(v) : i + Len(k) - 1 <= Len(v) /\ SubSeq(v, i, i + Len(k) - 1) = k
    IN  IF has(<<"a","c","t","i","v","e">>) \/ has(<<"o","k">>)
           \/ has(<<"c","o","m","p","l","e","t","e">>)
        THEN "(check mark)"
        ELSE IF has(<<"p","e","n","d","i","n","g">>)
                \/ has(<<"i","n"," ","p","r","o","g","r","e","s","s">>)
        THEN "(hourglass)"
        ELSE "(cross)"

\* C9: for one status record the reply's glyph is the tier of current_status
\* by case-insensitive substring match with the precedence favorable, pending,
\* unfavorable: "Active" is favorable, "Pending Review" pending, "Failed" and
\* an absent status unfavorable, and a status matching a favorable and a
\* pending keyword is favorable.
C9_StatusTier ==
    (Responded /\ Ran(calls, "check_resource_status") /\ backend.tag = "rows"
     /\ backend.rows # <<>>) =>
        LET st == backend.rows[1].current_status IN
        /\ IsEphemeralText
        /\ response.payload.text[1] = ClaimedGlyph(st)
        /\ st = S_Active => response.payload.text[1] = "(check mark)"
        /\ st = S_PendingReview => response.payload.text[1] = "(hourglass)"
        /\ st = S_Failed => response.payload.text[1] = "(cross)"
        /\ st = None => response.payload.text[1] = "(cross)"
        /\ st = S_OkPending => response.payload.text[1] = "(check mark)"

\* "OK, pending" matches "ok" and "pending": favorable.
C9_Witness ==
    /\ Responded /\ Ran(calls, "check_resource_status") /\ backend.tag = "rows"
    /\ backend.rows # <<>>
    /\ backend.rows[1].current_status = S_OkPending
    /\ IsEphemeralText
    /\ response.payload.text[1] = "(check mark)"

\* C10: validation runs before sanitization.  A validly signed request with
\* a known command and one non-empty token made only of characters outside
\* [a-zA-Z0-9_-] is not answered with the usage error: the command's lookup
\* runs with the empty string, and when the store returns no row the reply is
\* that command's "not found" message.
C10_EmptySanitizedParameterIsLookedUp ==
    (Responded /\ IsForm /\ SignatureOK /\ CommandName \in {GETINFO, CHECKSTATUS}
     /\ TokenCount(RawText) = 1 /\ Range(strip(RawText)) \cap (SanitizedChars \cup Range(UpperCase)) = {}) =>
        /\ ~RepliesText(UsageError(CommandName))
        /\ Ran(calls, "bigquery.query")
        /\ ArgsOf("bigquery.query") = << <<>> >>
        /\ CommandName = GETINFO =>
              /\ ArgsOf("get_resource_info") = << <<>> >>
              /\ backend = Rows(<<>>) =>
                    RepliesText(Lit("No information found for resource: *") \o Lit("*."))
        /\ CommandName = CHECKSTATUS =>
              /\ ArgsOf("check_resource_status") = << <<>> >>
              /\ backend = Rows(<<>>) =>
                    RepliesText(Lit("(question mark) Resource *")
                                \o Lit("* was not found for status check."))

\* "/checkstatus !!" with no row in the status table.
C10_Witness ==
    /\ Responded /\ IsForm /\ SignatureOK
    /\ request.form.command = CHECKSTATUS
    /\ request.form.text = <<"!", "!">>
    /\ backend = Rows(<<>>)
    /\ Ran(calls, "check_resource_status")
    /\ RepliesText(StatusNotFound(<<>>))


\* The names of the functions the handler ran, in order.
Stages == [i \in 1..Len(calls) |-> calls[i].fn]

\* The first check the request fails, in the order content type, signature,
\* command presence, parameter token count; "none" when it passes them all.
FirstFailure ==
    IF ~IsForm THEN "content_type"
    ELSE IF ~SignatureOK THEN "signature"
    ELSE IF CommandName = <<>> THEN "command"
    ELSE IF TokenCount(RawText) # 1 THEN "parameter"
    ELSE "none"

\* The response and the stages run are those of the first failing check, and
\* past the checks the parameter is sanitized before the command is routed.
FirstFailureDecides ==
    Responded =>
        /\ FirstFailure = "content_type" =>
              /\ response.kind = "tuple" /\ response.status = 400
              /\ Stages = <<"request.get_data">>
        /\ FirstFailure = "signature" =>
              /\ IsEphemeralText
              /\ StartsWith(response.payload.text, Lit("Validation Error: "))
              /\ Stages = <<"verify_slack_signature">>
        /\ FirstFailure = "command" =>
              /\ RepliesText(Lit("Error: No command was provided."))
              /\ Stages = <<"verify_slack_signature", "request.form">>
        /\ FirstFailure = "parameter" =>
              /\ RepliesText(Lit("Error: A single parameter was expected. Example: ")
                             \o CommandName \o Lit(" my-resource"))
              /\ Stages = <<"verify_slack_signature", "request.form">>
        /\ FirstFailure = "none" =>
              /\ SubSeq(Stages, 1, 4) =
                    <<"verify_slack_signature", "request.form", "sanitize", "menu_controller">>
              /\ CommandName = GETINFO =>
                    Stages = <<"verify_slack_signature", "request.form", "sanitize",
                               "menu_controller", "get_resource_info", "bigquery.query">>
              /\ CommandName = CHECKSTATUS =>
                    Stages = <<"verify_slack_signature", "request.form", "sanitize",
                               "menu_controller", "check_resource_status", "bigquery.query">>
              /\ CommandName \notin {GETINFO, CHECKSTATUS} =>
                    /\ Len(Stages) = 4
                    /\ RepliesText(Lit("Command '") \o CommandName \o Lit("' not recognized."))

\* A received request is answered by the next step, and an answer is handed
\* over unchanged: no request is answered twice or dropped.
RespondedOnce ==
    /\ pc = "received" =>
          /\ pc' = "responded" /\ request' = request
          /\ response = NoResponse /\ response' # NoResponse
    /\ pc = "responded" => (pc' = "idle" /\ response # NoResponse)
    /\ pc = "idle" => (pc' = "received" /\ response' = NoResponse)

\* C11: request_handler applies its checks in the order content type,
\* signature, command presence, parameter token count, sanitization, routing;
\* the earliest failing check alone determines the response (an invalid
\* signature with a missing command gets "Validation Error:", an empty command
\* with an empty parameter gets "No command was provided"), no later stage
\* runs after a short-circuit, and each request is responded to exactly once.
C11_FirstFailingCheckDecides ==
    /\ []FirstFailureDecides
    /\ [][RespondedOnce]_vars

\* A request with a bad signature, no command and no text, answered with the
\* validation error after the signature check alone.
C11_Witness ==
    /\ Responded /\ IsForm
    /\ env = SigningSecret
    /\ request.timestamp = FreshTs /\ request.signature = BadSig
    /\ request.form.command = None /\ request.form.text = None
    /\ RepliesText(Lit("Validation Error: ") \o MsgInvalidSignature)
    /\ Stages = <<"verify_slack_signature">>

====
